---- MODULE Spec2Model ----
(***************************************************************************)
(* Model of pdb2pqr/main.py: mainCommand, the command-line driver.  One    *)
(* run of mainCommand is a straight-line program; the model follows it     *)
(* block by block.  A string is a sequence of one-character strings, so    *)
(* that str.lower, Path.suffix and the slices line[a:b] are computed and   *)
(* not assumed.  Option values that only one block reads are drawn at that *)
(* block (args is not changed in between, so this is the same as drawing   *)
(* them at parse_args); the options that several blocks read, or that the  *)
(* properties speak about, are fixed in Init.                              *)
(***************************************************************************)
EXTENDS Integers, Sequences, FiniteSets, TLC

VARIABLES
    pc,          \* position of mainCommand
    supplied,    \* the options as parse_args returned them (line 40)
    args,        \* the options as mainCommand has rewritten them so far
    ffFile,      \* what utilities.getFFfile(args.ff) returns ("" for no file)
    opened,      \* file handles opened by mainCommand
    closed,      \* file handles closed by mainCommand
    input_pdb,   \* args.input_pdb, once read
    reader,      \* which format reader parsed the input
    isCIF,       \* args.isCIF (False until line 98 sets it)
    pdblist,     \* records returned by the reader
    errlist,     \* per-record errors returned by the reader
    log,         \* what went to _LOGGER.warn / _LOGGER.error, in order
    runCalls,    \* the calls of run.runPDB2PQR: <<[pdblist, debump, opt]>>
    header,      \* results_dict["header"]
    lines,       \* results_dict["lines"]
    whitespace,  \* args.whitespace, once read
    written,     \* the strings passed to outfile.write, in order
    apbsReached, \* the APBS-input step (lines 155-165) was entered
    error,       \* how the run ended abnormally, "none" otherwise
    message      \* which parser.error / exception
vars == <<pc, supplied, args, ffFile, opened, closed, input_pdb, reader,
          isCIF, pdblist, errlist, log, runCalls, header, lines, whitespace,
          written, apbsReached, error, message>>

-----------------------------------------------------------------------------
(* Bounds of the model *)
MaxRecords == 1    \* records the reader returns
MaxErrors == 1     \* per-record errors the reader returns
MaxLines == 1      \* output lines run.runPDB2PQR returns

-----------------------------------------------------------------------------
(* Strings *)
UpperCase == <<"A","B","C","D","E","F","G","H","I","J","K","L","M",
               "N","O","P","Q","R","S","T","U","V","W","X","Y","Z">>
LowerCase == <<"a","b","c","d","e","f","g","h","i","j","k","l","m",
               "n","o","p","q","r","s","t","u","v","w","x","y","z">>

\* str.lower on one character
LowerChar(c) ==
    IF \E i \in 1..Len(UpperCase) : UpperCase[i] = c
    THEN LowerCase[CHOOSE i \in 1..Len(UpperCase) : UpperCase[i] = c]
    ELSE c

\* str.lower
Lower(s) == [i \in 1..Len(s) |-> LowerChar(s[i])]

Min(a, b) == IF a < b THEN a ELSE b

\* s[a:b] for 0 <= a <= b (Python clamps both ends to len(s))
Slice(s, a, b) ==
    IF Min(a, Len(s)) >= Min(b, Len(s)) THEN <<>>
    ELSE SubSeq(s, Min(a, Len(s)) + 1, Min(b, Len(s)))

\* s[a:]
SliceFrom(s, a) == Slice(s, a, Len(s))

\* index of the last "." of s, 0 if there is none
LastDot(s) ==
    IF \E i \in 1..Len(s) : s[i] = "."
    THEN CHOOSE i \in 1..Len(s) : s[i] = "." /\ \A j \in (i+1)..Len(s) : s[j] # "."
    ELSE 0

\* pathlib: PurePath.suffix, the final component's last dot and what follows
\* it ("" when there is no dot, or the dot leads or ends the name)
Suffix(name) ==
    IF 1 < LastDot(name) /\ LastDot(name) < Len(name)
    THEN SubSeq(name, LastDot(name), Len(name))
    ELSE <<>>

None == <<"None">>                       \* Python's None (no string has this element)
parse == <<"p","a","r","s","e">>         \* 'parse'
cif == <<"c","i","f">>                   \* "cif"

amber == <<"a","m","b","e","r">>         \* a force field other than PARSE

-----------------------------------------------------------------------------
(* Values of the options and of the environment *)
FFValues == {None, parse, <<"P","A","R","S","E">>, amber}    \* args.ff
PhValues == {-1, 0, 14, 15}                                  \* args.ph
FileArgs == {"None", "present", "missing"}   \* an optional path: not given, names a file, names none
PkaMethods == {"None", "propka", "pdb2pka"}                  \* args.pka_method
InputPaths == {<<"a",".","c","i","f">>, <<"a",".","C","I","F">>,
               <<"a",".","p","d","b">>, cif}                 \* args.input_pdb

\* utilities.getFFfile(args.ff): "" or the path of a parameter file.  The
\* function is not part of main.py; its result is left free for every args.ff
FFfiles == {<<>>, <<"f","f",".","D","A","T">>}

Options == [clean : BOOLEAN, assign_only : BOOLEAN, debump : BOOLEAN, opt : BOOLEAN,
            ff : FFValues, ph : PhValues, neutraln : BOOLEAN, neutralc : BOOLEAN]

\* Names bound in main.py at module level (lines 7-36) and inside mainCommand
ModuleGlobals == {"os", "logging", "Path", "cli", "run", "pdb", "cif", "utilities",
                  "structures", "PDB2PQRError", "propka_lib", "extensions",
                  "__version__", "ligff", "HEADER_TEXT", "_LOGGER", "mainCommand"}
LocalNames == {"parser", "args", "user_names_file", "user_ff_file", "ph_calc_options",
               "ligand_file", "path", "pdbFile", "pdblist", "errlist", "extensionOpts",
               "results_dict", "header", "lines", "missedligands", "outfile"}

\* Output lines of run.runPDB2PQR: fixed-column records, each column holding
\* its own number's last digit so that a slice shows where it was cut
Digits == <<"0","1","2","3","4","5","6","7","8","9">>
Columns(m, n) == [i \in 1..(n - m + 1) |-> Digits[((i + m - 1) % 10) + 1]]
ATOM == <<"A","T","O","M">>
HETATM == <<"H","E","T","A","T","M">>
TER == <<"T","E","R">>
AtomLine == ATOM \o <<" "," ">> \o Columns(7, 50) \o <<"\n">>
HetatmLine == HETATM \o Columns(7, 50) \o <<"\n">>
TerLine == TER \o <<"\n">>
OutputLines == {AtomLine, HetatmLine, TerLine}
HeaderText == <<"R","E","M","A","R","K","\n">>     \* results_dict["header"]
CifTrailer == <<"#","\n">>                         \* "#\n"

\* sequences over S of length at most n
SeqsUpTo(S, n) == UNION {[1..k -> S] : k \in 0..n}

-----------------------------------------------------------------------------
Init ==
    /\ pc = "start"
    /\ supplied \in Options
    /\ args = supplied
    /\ ffFile \in FFfiles
    /\ opened = {}
    /\ closed = {}
    /\ input_pdb = None
    /\ reader = "none"
    /\ isCIF = FALSE
    /\ pdblist = <<>>
    /\ errlist = <<>>
    /\ log = <<>>
    /\ runCalls = <<>>
    /\ header = <<>>
    /\ lines = <<>>
    /\ whitespace = FALSE
    /\ written = <<>>
    /\ apbsReached = FALSE
    /\ error = "none"
    /\ message = "none"

\* parser.error(message): argparse prints the message and exits
ParserError(msg) ==
    /\ pc' = "exit"
    /\ error' = "parser.error"
    /\ message' = msg

\* an exception nothing in mainCommand catches
Raise(exc, msg) ==
    /\ pc' = "exit"
    /\ error' = exc
    /\ message' = msg

Goto(label) ==
    /\ pc' = label
    /\ UNCHANGED <<error, message>>

-----------------------------------------------------------------------------
\* only --clean switches debumping and optimization off
NoStructureChange_cleanOnly(a) == a.clean

\* lines 47-49
NoStructureChange(a) == a.assign_only \/ a.clean

NormaliseOptions ==
    /\ pc = "start"
    /\ args' = IF NoStructureChange(args)
               THEN [args EXCEPT !.debump = FALSE, !.opt = FALSE]
               ELSE args
    /\ Goto("validate")
    /\ UNCHANGED <<supplied, ffFile, opened, closed, input_pdb, reader, isCIF,
                   pdblist, errlist, log, runCalls, header, lines, whitespace,
                   written, apbsReached>>

\* the two range tests joined by "and": no pH is rejected
PhOutOfRange_and(ph) == (ph < 0) /\ (ph > 14)

\* line 62
PhOutOfRange(ph) == (ph < 0) \/ (ph > 14)

\* the result compared with None, not with "": a missing file goes unnoticed
NoParameterFile_isNone(file) == file = None

\* line 60
NoParameterFile(file) == file = <<>>

\* line 51: the block 52-63 runs unless --clean
ValidationApplies(a) == ~a.clean

\* lines 51-63, for args.usernames = un and args.userff = uf: the handles
\* opened and how the block ends
ValidateOutcome(a, un, uf) ==
    IF ~ValidationApplies(a) THEN [files |-> {}, error |-> "none", message |-> "none"]
    ELSE IF un = "missing"
        THEN [files |-> {}, error |-> "IOError", message |-> "usernames"]
    ELSE LET names == IF un = "present" THEN {"user_names_file"} ELSE {} IN
         IF uf = "missing"
            THEN [files |-> names, error |-> "IOError", message |-> "userff"]
         ELSE LET both == names \cup (IF uf = "present" THEN {"user_ff_file"} ELSE {}) IN
         IF uf = "present" /\ un = "None"
            THEN [files |-> both, error |-> "parser.error", message |-> "usernames_required"]
         ELSE IF NoParameterFile(ffFile)
            THEN [files |-> both, error |-> "parser.error", message |-> "no_ff_file"]
         ELSE IF PhOutOfRange(a.ph)
            THEN [files |-> both, error |-> "parser.error", message |-> "ph_range"]
         ELSE [files |-> both, error |-> "none", message |-> "none"]

ValidateOptions ==
    /\ pc = "validate"
    /\ \E un \in FileArgs, uf \in FileArgs :
         LET out == ValidateOutcome(args, un, uf) IN
         /\ opened' = opened \cup out.files
         /\ IF out.error = "none" THEN Goto("pka") ELSE Raise(out.error, out.message)
    /\ UNCHANGED <<supplied, args, ffFile, closed, input_pdb, reader, isCIF,
                   pdblist, errlist, log, runCalls, header, lines, whitespace,
                   written, apbsReached>>

\* lines 65-76
PkaOutcome(a, method) ==
    IF method = "pdb2pka"
    THEN IF a.ff = None THEN [error |-> "AttributeError", message |-> "ff.lower"]
         ELSE IF Lower(a.ff) # parse
              THEN [error |-> "parser.error", message |-> "pdb2pka_parse"]
              ELSE [error |-> "none", message |-> "none"]
    ELSE [error |-> "none", message |-> "none"]

PkaOptions ==
    /\ pc = "pka"
    /\ \E method \in PkaMethods :
         LET out == PkaOutcome(args, method) IN
         IF out.error = "none" THEN Goto("ligand") ELSE Raise(out.error, out.message)
    /\ UNCHANGED <<supplied, args, ffFile, opened, closed, input_pdb, reader,
                   isCIF, pdblist, errlist, log, runCalls, header, lines, whitespace,
                   written, apbsReached>>

\* lines 78-83
OpenLigand ==
    /\ pc = "ligand"
    /\ \E ligand \in FileArgs :
         /\ opened' = IF ligand = "present" THEN opened \cup {"ligand_file"} ELSE opened
         /\ IF ligand = "missing" THEN ParserError("no_ligand") ELSE Goto("neutral")
    /\ UNCHANGED <<supplied, args, ffFile, closed, input_pdb, reader, isCIF,
                   pdblist, errlist, log, runCalls, header, lines, whitespace,
                   written, apbsReached>>

\* "is not None and": an absent force field passes
NotParse_skipNone(ff) == ff # None /\ Lower(ff) # parse

\* lines 85, 88: the force field is absent or is not PARSE
NotParse(ff) == ff = None \/ Lower(ff) # parse

\* lines 85-89
NeutralOutcome(a) ==
    IF a.neutraln /\ NotParse(a.ff) THEN "neutraln"
    ELSE IF a.neutralc /\ NotParse(a.ff) THEN "neutralc"
    ELSE "none"

CheckNeutral ==
    /\ pc = "neutral"
    /\ IF NeutralOutcome(args) = "none" THEN Goto("read")
       ELSE ParserError(NeutralOutcome(args))
    /\ UNCHANGED <<supplied, args, ffFile, opened, closed, input_pdb, reader,
                   isCIF, pdblist, errlist, log, runCalls, header, lines, whitespace,
                   written, apbsReached>>

\* line 96
IsCifSuffix(path) == Lower(Suffix(path)) = cif

\* lines 92-100: utilities.getPDBFile and the format reader; the reader
\* returns any number of records and of per-record errors
ReadInput ==
    /\ pc = "read"
    /\ \E path \in InputPaths, nrec \in 0..MaxRecords, nerr \in 0..MaxErrors :
         /\ input_pdb' = path
         /\ isCIF' = IsCifSuffix(path)
         /\ reader' = IF IsCifSuffix(path) THEN "readCIF" ELSE "readPDB"
         /\ pdblist' = [i \in 1..nrec |-> "record"]
         /\ errlist' = [i \in 1..nerr |-> "bad_record"]
    /\ Goto("check_read")
    /\ UNCHANGED <<supplied, args, ffFile, opened, closed, log, runCalls,
                   header, lines, whitespace, written, apbsReached>>

\* the second test inverted: an empty result without errors passes
NothingRead_inverted(recs, errs) == Len(recs) = 0 /\ Len(errs) # 0

\* line 102
NothingRead(recs, errs) == Len(recs) = 0 /\ Len(errs) = 0

\* a name Python can resolve inside mainCommand (the builtins hold no isCIF)
NameIsBound(name) == name \in LocalNames \cup ModuleGlobals

\* lines 105-110: the warning names the format by the bare name isCIF
ReportOutcome(errs) ==
    IF Len(errs) = 0 THEN [log |-> <<>>, error |-> "none", message |-> "none"]
    ELSE IF ~NameIsBound("isCIF")
         THEN [log |-> <<>>, error |-> "NameError", message |-> "isCIF"]
         ELSE [log |-> <<IF isCIF THEN "warn_nonstandard_cif" ELSE "warn_nonstandard_pdb",
                         "error_errlist">>,
               error |-> "none", message |-> "none"]

\* lines 102-110
CheckRead ==
    /\ pc = "check_read"
    /\ IF NothingRead(pdblist, errlist)
       THEN /\ ParserError("no_input")
            /\ UNCHANGED log
       ELSE LET out == ReportOutcome(errlist) IN
            /\ log' = log \o out.log
            /\ IF out.error = "none" THEN Goto("run") ELSE Raise(out.error, out.message)
    /\ UNCHANGED <<supplied, args, ffFile, opened, closed, input_pdb, reader,
                   isCIF, pdblist, errlist, runCalls, header, lines, whitespace,
                   written, apbsReached>>

\* the handler logs the error and does not raise it again
AfterRun_swallow(outcome) == "write"

\* lines 122-129: where mainCommand goes when run.runPDB2PQR has ended
AfterRun(outcome) == IF outcome = "PDB2PQRError" THEN "exit" ELSE "write"

\* lines 112-129: run.runPDB2PQR(pdblist, args) returns its results or
\* raises PDB2PQRError, which is logged and raised again
RunStage ==
    /\ pc = "run"
    /\ runCalls' = Append(runCalls, [pdblist |-> pdblist, debump |-> args.debump,
                                     opt |-> args.opt])
    /\ \E outcome \in {"returned", "PDB2PQRError"} :
         /\ pc' = AfterRun(outcome)
         /\ IF outcome = "returned"
            THEN /\ header' = HeaderText
                 /\ lines' \in SeqsUpTo(OutputLines, MaxLines)
                 /\ UNCHANGED <<log, error, message>>
            ELSE /\ log' = Append(log, "error_PDB2PQRError")
                 /\ error' = "PDB2PQRError"
                 /\ message' = "run"
                 /\ UNCHANGED <<header, lines>>
    /\ UNCHANGED <<supplied, args, ffFile, opened, closed, input_pdb, reader,
                   isCIF, pdblist, errlist, whitespace, written, apbsReached>>

\* lines 139, 142
AddWhitespace(line) ==
    Slice(line, 0, 6) \o <<" ">> \o Slice(line, 6, 16) \o <<" ">> \o
    Slice(line, 16, 38) \o <<" ">> \o Slice(line, 38, 46) \o <<" ">> \o
    SliceFrom(line, 46)

\* lines 137-150: what one pass of the loop writes for line
WriteLine(line, ws, isCif) ==
    IF ws
    THEN IF Slice(line, 0, 4) = ATOM THEN <<AddWhitespace(line)>>
         ELSE IF Slice(line, 0, 6) = HETATM THEN <<AddWhitespace(line)>>
         ELSE <<>>
    ELSE IF Slice(line, 0, 3) = TER /\ isCif THEN <<>>
         ELSE <<line>>

\* lines 136-150
RECURSIVE WriteLines(_, _, _)
WriteLines(ls, ws, isCif) ==
    IF ls = <<>> THEN <<>>
    ELSE WriteLine(Head(ls), ws, isCif) \o WriteLines(Tail(ls), ws, isCif)

\* lines 133-153
WriteOutput ==
    /\ pc = "write"
    /\ \E ws \in BOOLEAN :
         /\ whitespace' = ws
         /\ written' = <<header>> \o WriteLines(lines, ws, isCIF)
                         \o (IF isCIF THEN <<CifTrailer>> ELSE <<>>)
    /\ opened' = opened \cup {"outfile"}
    /\ closed' = closed \cup {"outfile"}
    /\ Goto("apbs")
    /\ UNCHANGED <<supplied, args, ffFile, input_pdb, reader, isCIF, pdblist,
                   errlist, log, runCalls, header, lines, apbsReached>>

\* lines 155-165
ApbsInput ==
    /\ pc = "apbs"
    /\ \E apbs_input \in BOOLEAN : apbsReached' = apbs_input
    /\ Goto("done")
    /\ UNCHANGED <<supplied, args, ffFile, opened, closed, input_pdb, reader,
                   isCIF, pdblist, errlist, log, runCalls, header, lines, whitespace,
                   written>>

Next ==
    \/ NormaliseOptions
    \/ ValidateOptions
    \/ PkaOptions
    \/ OpenLigand
    \/ CheckNeutral
    \/ ReadInput
    \/ CheckRead
    \/ RunStage
    \/ WriteOutput
    \/ ApbsInput

Spec == Init /\ [][Next]_vars

-----------------------------------------------------------------------------
Terminated == pc \in {"done", "exit"}

TypeOK ==
    /\ pc \in {"start", "validate", "pka", "ligand", "neutral", "read", "check_read",
               "run", "write", "apbs", "done", "exit"}
    /\ supplied \in Options
    /\ args \in Options
    /\ opened \subseteq {"user_names_file", "user_ff_file", "ligand_file", "outfile"}
    /\ closed \subseteq opened
    /\ Len(runCalls) <= 1
    /\ (error = "none") = (pc # "exit")

-----------------------------------------------------------------------------
(* Properties *)

Range(f) == {f[i] : i \in DOMAIN f}

\* no part of the pipeline has run: the input is unread, run.runPDB2PQR is
\* uncalled and the output file is neither opened nor written
NothingProcessed ==
    /\ reader = "none"
    /\ input_pdb = None
    /\ runCalls = <<>>
    /\ written = <<>>
    /\ "outfile" \notin opened

\* mainCommand has not got past the option checks of lines 47-89
BeforeRead == pc \in {"start", "validate", "pka", "ligand", "neutral", "exit"}

\* the pH lies outside [0, 14]
PhOutside(ph) == ph \notin 0..14

\* C1 as stated: a pH outside [0, 14] always ends the run in a fatal error
\* with nothing processed, whatever the other options are (clean included).
C1_PhOutsideIsFatal ==
    PhOutside(supplied.ph) =>
        /\ BeforeRead
        /\ NothingProcessed
        /\ (Terminated => error # "none")

\* C1 as amended: when clean is not set, a pH outside [0, 14] ends the run
\* inside the option checks of lines 51-63 with nothing processed: at the
\* latest with the pH error, earlier if a user file cannot be opened, userff
\* comes without usernames or the force field has no parameter file.
C1_PhOutsideIsFatalUnlessClean ==
    (PhOutside(supplied.ph) /\ ~supplied.clean) =>
        /\ pc \in {"start", "validate", "exit"}
        /\ NothingProcessed
        /\ (Terminated =>
              /\ error \in {"parser.error", "IOError"}
              /\ message \in {"usernames", "userff", "usernames_required",
                              "no_ff_file", "ph_range"})

C1_Witness ==
    /\ pc = "exit"
    /\ message = "ph_range"
    /\ supplied.ph = 15
    /\ supplied.assign_only

\* C2 as stated: whenever getFFfile reports no parameter file, the run ends
\* in an error before the input is read and before run.runPDB2PQR is called.
C2_MissingForceFieldIsFatal ==
    (ffFile = <<>>) =>
        /\ BeforeRead
        /\ NothingProcessed
        /\ (Terminated => error # "none")

\* C2 as amended: when clean is not set and getFFfile reports no parameter
\* file, the run ends inside the option checks of lines 51-61, before the
\* input is read and before run.runPDB2PQR is called.
C2_MissingForceFieldIsFatalUnlessClean ==
    (ffFile = <<>> /\ ~supplied.clean) =>
        /\ pc \in {"start", "validate", "exit"}
        /\ NothingProcessed
        /\ (Terminated =>
              /\ error \in {"parser.error", "IOError"}
              /\ message \in {"usernames", "userff", "usernames_required",
                              "no_ff_file"})

C2_Witness ==
    /\ pc = "exit"
    /\ message = "no_ff_file"
    /\ ffFile = <<>>
    /\ ~PhOutside(supplied.ph)

\* the part of a file name after its last dot, "" without a dot
Extension(path) ==
    IF LastDot(path) = 0 THEN <<>>
    ELSE SubSeq(path, LastDot(path) + 1, Len(path))

\* s spells the lower-case word in some letter case
SpellsAnyCase(s, word) ==
    /\ Len(s) = Len(word)
    /\ \A i \in 1..Len(word) :
         \E k \in 1..Len(LowerCase) :
            /\ LowerCase[k] = word[i]
            /\ s[i] \in {LowerCase[k], UpperCase[k]}

\* the path's extension is cif in some letter case
HasCifExtension(path) == SpellsAnyCase(Extension(path), cif)

\* C3: once the input is read, a cif extension (any letter case) means it
\* was parsed by cif.readCIF with isCIF True, any other extension means it
\* was parsed by pdb.readPDB with isCIF False.
C3_ExtensionSelectsReader ==
    (reader # "none") =>
        IF HasCifExtension(input_pdb)
        THEN reader = "readCIF" /\ isCIF
        ELSE reader = "readPDB" /\ ~isCIF

\* C4: a reader result with errors and at least one record never aborts in
\* the reporting step: the errors are logged and run.runPDB2PQR is called
\* with the records, and the output is written unless that stage fails.
C4_ReadErrorsDoNotAbort ==
    (Len(pdblist) > 0 /\ Len(errlist) > 0 /\ pc # "check_read") =>
        /\ error \in {"none", "PDB2PQRError"}
        /\ "error_errlist" \in Range(log)
        /\ (pc # "run" => Len(runCalls) = 1 /\ runCalls[1].pdblist = pdblist)
        /\ (pc = "done" => written # <<>>)

\* C5: an empty list of records (with or without errors) aborts the run
\* with one error right after the read stage; run.runPDB2PQR is never called.
\* The error is parser.error (line 103) when the error list is empty too,
\* and the NameError of line 106 when it is not.
C5_NoRecordsIsFatal ==
    (reader # "none" /\ Len(pdblist) = 0) =>
        /\ pc \in {"check_read", "exit"}
        /\ runCalls = <<>>
        /\ written = <<>>
        /\ (pc = "exit" => error # "none" /\ message \in {"no_input", "isCIF"})

C5_Witness ==
    /\ pc = "exit"
    /\ reader # "none"
    /\ Len(pdblist) = 0
    /\ Len(errlist) = 0
    /\ message = "no_input"

\* C6: a PDB2PQRError from run.runPDB2PQR is logged and ends the run with
\* that one error, the output file unopened and unwritten and the APBS step
\* not reached; and the output file is opened or written only after
\* run.runPDB2PQR has been called and has returned its header and lines.
C6_RunErrorAborts ==
    /\ (error = "PDB2PQRError" =>
          /\ pc = "exit"
          /\ log # <<>> /\ log[Len(log)] = "error_PDB2PQRError"
          /\ written = <<>>
          /\ "outfile" \notin opened
          /\ ~apbsReached)
    /\ ((written # <<>> \/ "outfile" \in opened \/ pc \in {"write", "apbs", "done"}) =>
          /\ Len(runCalls) = 1
          /\ header = HeaderText
          /\ error = "none")

C6_Witness ==
    /\ pc = "exit"
    /\ error = "PDB2PQRError"
    /\ Len(runCalls) = 1

\* C7: for a non-CIF input the output file holds the header and then one
\* record per line of run.runPDB2PQR, in order, the line itself or (with the
\* whitespace option) the line with the column separators inserted.
C7_EveryLineWritten ==
    (pc \in {"apbs", "done"} /\ ~HasCifExtension(input_pdb) /\ ~isCIF) =>
        /\ Len(written) = 1 + Len(lines)
        /\ written[1] = header
        /\ \A i \in 1..Len(lines) :
             written[i + 1] = IF whitespace THEN AddWhitespace(lines[i]) ELSE lines[i]

\* C8: when mainCommand has ended, every handle it opened is closed.
C8_HandlesReleased == Terminated => opened \subseteq closed

\* ff spells parse in some letter case
SpellsParse(ff) == ff # None /\ SpellsAnyCase(ff, parse)

\* C9: with neutraln or neutralc set and a force field that is absent or
\* is not PARSE (in any letter case), the run ends in an error during the
\* option checks, clean or not: the input is never read and run.runPDB2PQR
\* never called; a run that gets as far as lines 85-89 ends with the
\* neutraln/neutralc error, any other run with the error of an earlier
\* option check (parser.error, or the IOError / AttributeError of lines
\* 54, 57, 70).
C9_NeutralNeedsParse ==
    ((supplied.neutraln \/ supplied.neutralc) /\ ~SpellsParse(supplied.ff)) =>
        /\ BeforeRead
        /\ NothingProcessed
        /\ (Terminated => error # "none")
        /\ (Terminated /\ message \notin {"neutraln", "neutralc"} =>
              message \in {"usernames", "userff", "usernames_required", "no_ff_file",
                           "ph_range", "ff.lower", "pdb2pka_parse", "no_ligand"})

C9_Witness ==
    /\ pc = "exit"
    /\ message = "neutralc"
    /\ supplied.clean
    /\ supplied.ff = amber

\* C10: run.runPDB2PQR gets debump = False and opt = False whenever
\* assign_only or clean is set, and the caller's debump and opt otherwise.
C10_DebumpOptPassed ==
    \A i \in 1..Len(runCalls) :
        IF supplied.assign_only \/ supplied.clean
        THEN runCalls[i].debump = FALSE /\ runCalls[i].opt = FALSE
        ELSE runCalls[i].debump = supplied.debump /\ runCalls[i].opt = supplied.opt

C10_Witness ==
    /\ Len(runCalls) = 1
    /\ supplied.assign_only /\ ~supplied.clean
    /\ supplied.debump /\ supplied.opt
    /\ ~runCalls[1].debump /\ ~runCalls[1].opt

====
